---- MODULE Spec2Model ----
(***************************************************************************)
(* Continuous batching core of the text-generation router                  *)
(* (router/src/batcher.rs).                                                *)
(*                                                                         *)
(* The batching task is modelled at its suspension points: awaiting        *)
(* Queue::next_batch ("wait"), awaiting the initial prefill ("prefill"),   *)
(* awaiting a growth prefill ("grow") and awaiting next_token ("step").    *)
(* One action is the completion of one await followed by all the           *)
(* synchronous code up to the next await.  Callers (infer, infer_stream,   *)
(* infer_batch), clients dropping their receivers and the passing of       *)
(* deadlines are separate actions that interleave with it.                 *)
(*                                                                         *)
(* Queue, Entry, the incremental decoder and the sharded backend are not   *)
(* part of batcher.rs; they are modelled from their described contracts.   *)
(***************************************************************************)
EXTENDS Integers, Sequences, FiniteSets, TLC

VARIABLES
    cfg,            \* arguments of Batcher::new and the scenario explored
    chan,           \* the bounded mpsc channel: Seq of calls, each a Seq of ids
    buffer,         \* the Queue's staged entries: Seq of ids
    entries,        \* keys of TokenProcessor.entries (the in-flight map)
    ent,            \* id -> Entry (state of every entry ever enqueued)
    rx_open,        \* id -> the client's receiver still exists
    expired,        \* id -> Instant::now() > deadline
    sent,           \* id -> events placed on the entry's reply channel
    pc,             \* position of the batching task
    call,           \* arguments of the backend call being awaited
    batches,        \* the loop's local `batches` vec
    waiting_tokens, \* the loop's local counter
    srv,            \* backend cache: batch id -> ids it still steps
    generation_health,
    gh,             \* history per id: sends, removals, reason, batch number
    qh,             \* history: calls issued and refused, batches formed, last backend
                    \* result, next_token steps since the last prefill
    probe,          \* a function of the batcher applied on its own: arguments and result
    rs              \* id -> the ResponseStream the caller of infer_stream holds

vars == <<cfg, chan, buffer, entries, ent, rx_open, expired, sent, pc, call,
          batches, waiting_tokens, srv, generation_health, gh, qh, probe, rs>>

-----------------------------------------------------------------------------
(* Program constants *)

\* `waiting_tokens > 5` in should_try_to_grow_batch
WarmupTokens == 5

\* `e.generated_tokens % 16 == 0`: the unary cancellation poll
CancelPollEvery == 16

-----------------------------------------------------------------------------
(* Bounds of the model *)

\* entries enqueued in one run of the scheduling scenario
MaxEntries == 2

\* config.size_limit, the largest batch
BatchSizeLimit == 2

\* max_waiting_tokens given to Batcher::new
MaxWaitingTokens == 6

\* max_new_tokens of a long request in the scheduling scenario: it outlives
\* the warm-up of the growth decision
MaxNewSched == WarmupTokens + 2

\* max_new_tokens of a request in the token-processing scenario
MaxNewTok == 3

\* min_new_tokens of a request in the minimum-length scenario
MinNewTok == 3

\* max_new_tokens of the request in the cancellation scenario
MaxNewCancel == 33

\* queue_size given to Batcher::new in the queue scenario
QueueSize == 2

-----------------------------------------------------------------------------
(* Tokens, bytes and stop reasons *)

EosTokenId == 0     \* decoder.eos_token_id
TokA == 1           \* decodes to the byte 1
TokB == 2           \* decodes to the byte 2
TokPart == 3        \* first part of a multi-byte character: held back
TokBad == 4         \* an id the decoder cannot decode

NoneId == 0         \* Option<u64>::None for ids (ids start at 1)

NoToken == -1       \* a response that carries no generated token

NotFinished == "NotFinished"
EosToken == "EosToken"
MaxTokens == "MaxTokens"
TokenLimit == "TokenLimit"
StopSequence == "StopSequence"
TimeLimit == "TimeLimit"
Cancelled == "Cancelled"
Error == "Error"

Min(a, b) == IF a < b THEN a ELSE b

Max(a, b) == IF a < b THEN b ELSE a

\* the elements of a set of integers in increasing order
RECURSIVE SortedSeq(_)
SortedSeq(S) ==
    IF S = {} THEN <<>>
    ELSE LET m == CHOOSE x \in S : \A y \in S : x <= y
         IN <<m>> \o SortedSeq(S \ {m})

Range(s) == {s[i] : i \in 1..Len(s)}

\* concatenation of a sequence of sequences
RECURSIVE Flatten(_)
Flatten(ss) == IF ss = <<>> THEN <<>> ELSE Head(ss) \o Flatten(Tail(ss))

\* s occurs in t as a contiguous subsequence
Contains(t, s) ==
    \E i \in 1..(Len(t) - Len(s) + 1) : SubSeq(t, i, i + Len(s) - 1) = s

-----------------------------------------------------------------------------
(* Incremental decoder: a token id yields the text that can be emitted at a *)
(* character boundary; flush yields what is still buffered.                 *)

EmptyDec == [out |-> <<>>, pend |-> <<>>]

TokBytes(t) == IF t = TokA THEN <<1>> ELSE IF t = TokB THEN <<2>> ELSE <<>>

\* IncrementalDecoderWrapper::next
DecNext(d, t) ==
    IF t = TokBad THEN [err |-> TRUE, dec |-> d, text |-> <<>>]
    ELSE IF t = TokPart
         THEN [err |-> FALSE, dec |-> [d EXCEPT !.pend = @ \o <<1>>], text |-> <<>>]
    ELSE IF t = EosTokenId THEN [err |-> FALSE, dec |-> d, text |-> <<>>]
    ELSE LET txt == d.pend \o TokBytes(t)
         IN [err |-> FALSE, dec |-> [out |-> d.out \o txt, pend |-> <<>>], text |-> txt]

\* IncrementalDecoderWrapper::flush; `ok` is whether the tokenizer decodes the rest
DecFlush(d, ok) ==
    IF ok THEN [err |-> FALSE, dec |-> [out |-> d.out \o d.pend, pend |-> <<>>],
                text |-> d.pend]
    ELSE [err |-> TRUE, dec |-> d, text |-> <<>>]

-----------------------------------------------------------------------------
(* Entry *)

\* Entry::new(request, input_length, response_tx, stream_tx)
NewEntry(p) ==
    [stream |-> p.stream,
     min_new_tokens |-> p.min_new_tokens,
     max_new_tokens |-> p.max_new_tokens,
     max_is_token_limit |-> p.max_is_token_limit,
     stop_seqs |-> p.stop_seqs,
     has_deadline |-> p.has_deadline,
     generated_tokens |-> 0,
     token_ids |-> <<>>,
     has_output |-> FALSE,
     output |-> EmptyDec,
     input_tokens |-> FALSE]

NewHist == [finals |-> 0, removals |-> 0, reason |-> NotFinished,
            batch_no |-> 0, drop_at |-> -1, late |-> 0]

\* events on a reply channel
EvInit == [k |-> "init", n |-> 0, r |-> NotFinished, text |-> <<>>, tok |-> NoToken]

EvInput == [k |-> "input", n |-> 0, r |-> NotFinished, text |-> <<>>, tok |-> NoToken]

\* InferResponse::stream_inprog
stream_inprog(token, count, text) ==
    [k |-> "inprog", n |-> count, r |-> NotFinished, text |-> text, tok |-> token]

\* InferResponse::stream_final
stream_final(token, text, e, stop_reason) ==
    [k |-> "final", n |-> e.generated_tokens, r |-> stop_reason, text |-> text,
     tok |-> token]

\* InferResponse::unary: the decoder's whole output when there is one
unary(e, stop_reason) ==
    [k |-> "final", n |-> e.generated_tokens, r |-> stop_reason,
     text |-> IF e.has_output THEN e.output.out ELSE <<>>, tok |-> NoToken]

\* InferResponse::early_timeout
early_timeout == [k |-> "final", n |-> 0, r |-> TimeLimit, text |-> <<>>, tok |-> NoToken]

\* Err(ClientError); n is the N of "Error after generating N tokens: "
EvErr(n) == [k |-> "err", n |-> n, r |-> Error, text |-> <<>>, tok |-> NoToken]

-----------------------------------------------------------------------------
(* ResponseStream: what the caller of infer_stream holds.  pos counts the   *)
(* responses received; sunk and sink record the calls of on_drop.           *)

NoSink == [count |-> 0, reason |-> NotFinished, text |-> <<>>, err |-> FALSE]

\* `Ok(ResponseStream { .. })` in infer_stream; string is whether the
\* accumulator is Accumulator::String (a request with stop sequences)
NewStream(p) ==
    [open |-> TRUE, pos |-> 0, token_count |-> 0, stop_reason |-> NotFinished,
     has_err |-> FALSE, string |-> p.stop_seqs # {}, output |-> EmptyDec,
     sunk |-> 0, sink |-> NoSink]

\* the entry of a unary request: there is no stream
NoStream ==
    [open |-> FALSE, pos |-> 0, token_count |-> 0, stop_reason |-> NotFinished,
     has_err |-> FALSE, string |-> FALSE, output |-> EmptyDec,
     sunk |-> 0, sink |-> NoSink]

\* poll_next, `Ok(ir)`: the count and the reason of the response are kept
observe(r, ev) ==
    [r EXCEPT !.pos = @ + 1, !.token_count = ev.n, !.stop_reason = ev.r]

\* poll_next, Accumulator::String: `str.push_str(&*ir.output_text)`
accumulate_string(r, ev) == [r EXCEPT !.output.out = @ \o ev.text]

\* poll_next, Accumulator::Decoder: the flush on the last response; fl is
\* the decoder's answer
flushed_last(r, fl) ==
    IF fl.err THEN [r EXCEPT !.has_err = TRUE] ELSE [r EXCEPT !.output = fl.dec]

\* poll_next, Accumulator::Decoder: `if decode_err.is_none() && ir.reason != NotFinished`
flush_last(r, ev, ok) ==
    IF ev.r # NotFinished THEN flushed_last(r, DecFlush(r.output, ok)) ELSE r

\* poll_next, Accumulator::Decoder: d is the decoder's answer for the token
decode_next(r, ev, d, ok) ==
    IF d.err THEN [r EXCEPT !.has_err = TRUE]
    ELSE flush_last([r EXCEPT !.output = d.dec], ev, ok)

\* poll_next, Accumulator::Decoder: `if let Some(tok) = token`
accumulate_decoder(r, ev, ok) ==
    IF ev.tok # NoToken THEN decode_next(r, ev, DecNext(r.output, ev.tok), ok)
    ELSE flush_last(r, ev, ok)

\* ResponseStream::poll_next for one received response ev
poll_next(r, ev, ok) ==
    IF ev.k = "err" THEN [r EXCEPT !.pos = @ + 1, !.has_err = TRUE]
    ELSE IF r.string THEN accumulate_string(observe(r, ev), ev)
    ELSE accumulate_decoder(observe(r, ev), ev, ok)

\* a reason for on_drop that is the stream's stop_reason as it stands
on_drop_reason_raw(r) == r.stop_reason

\* Drop for ResponseStream: the stop reason given to on_drop
on_drop_reason(r) ==
    IF r.stop_reason = NotFinished
    THEN (IF r.has_err THEN Error ELSE Cancelled)
    ELSE r.stop_reason

\* Drop for ResponseStream: on_drop is called with the count, the reason,
\* the accumulated text and the error, which are taken out of the stream
drop_stream(r) ==
    [r EXCEPT !.open = FALSE,
              !.stop_reason = on_drop_reason(r),
              !.sunk = @ + 1,
              !.sink = [count |-> r.token_count, reason |-> on_drop_reason(r),
                        text |-> r.output.out, err |-> r.has_err],
              !.has_err = FALSE,
              !.output = EmptyDec]

-----------------------------------------------------------------------------
(* TokenProcessor: stopping criteria *)

\* a matches_stop_sequence that looks for the first byte of a stop sequence
matches_stop_sequence_first(e, has_text, text) ==
    has_text /\ \E ss \in e.stop_seqs : Contains(<<Head(ss)>>, e.output.out)

\* a matches_stop_sequence that looks one byte further back
matches_stop_sequence_wide(e, has_text, text) ==
    has_text /\ \E ss \in e.stop_seqs :
        \E i \in 1..(Len(e.output.out) - Len(ss) + 1) :
            /\ i >= Len(e.output.out) - Len(text) - Len(ss) + 1
            /\ SubSeq(e.output.out, i, i + Len(ss) - 1) = ss

\* TokenProcessor::matches_stop_sequence; last_text is Some(text) when has_text
matches_stop_sequence(e, has_text, text) ==
    IF has_text
    THEN LET output == e.output.out
             next_off == (Len(output) + 1) - Len(text)
         IN \E ss \in e.stop_seqs :
               LET len == Len(ss)
                   start == IF next_off >= len THEN next_off - len ELSE 0
               IN \E i \in (start + 1)..(Len(output) - len + 1) :
                     SubSeq(output, i, i + len - 1) = ss
    ELSE FALSE

\* a check_stopping_criteria that gives MaxTokens for a token limit and
\* TokenLimit otherwise
check_stopping_criteria_swapped(e, deadline_elapsed, last_token_id, eos_token_id, has_text, text) ==
    IF e.has_deadline /\ deadline_elapsed THEN TimeLimit
    ELSE IF e.generated_tokens < e.min_new_tokens THEN NotFinished
    ELSE IF last_token_id = eos_token_id THEN EosToken
    ELSE IF e.generated_tokens >= e.max_new_tokens
         THEN (IF e.max_is_token_limit THEN MaxTokens ELSE TokenLimit)
    ELSE IF matches_stop_sequence(e, has_text, text) THEN StopSequence
    ELSE NotFinished

\* a check_stopping_criteria that looks at max_new_tokens before the eos token
check_stopping_criteria_max_first(e, deadline_elapsed, last_token_id, eos_token_id, has_text, text) ==
    IF e.has_deadline /\ deadline_elapsed THEN TimeLimit
    ELSE IF e.generated_tokens < e.min_new_tokens THEN NotFinished
    ELSE IF e.generated_tokens >= e.max_new_tokens
         THEN (IF e.max_is_token_limit THEN TokenLimit ELSE MaxTokens)
    ELSE IF last_token_id = eos_token_id THEN EosToken
    ELSE IF matches_stop_sequence(e, has_text, text) THEN StopSequence
    ELSE NotFinished

\* a check_stopping_criteria that looks at min_new_tokens before the deadline
check_stopping_criteria_min_first(e, deadline_elapsed, last_token_id, eos_token_id, has_text, text) ==
    IF e.generated_tokens < e.min_new_tokens THEN NotFinished
    ELSE IF e.has_deadline /\ deadline_elapsed THEN TimeLimit
    ELSE IF last_token_id = eos_token_id THEN EosToken
    ELSE IF e.generated_tokens >= e.max_new_tokens
         THEN (IF e.max_is_token_limit THEN TokenLimit ELSE MaxTokens)
    ELSE IF matches_stop_sequence(e, has_text, text) THEN StopSequence
    ELSE NotFinished

\* a check_stopping_criteria whose limit acts two tokens late
check_stopping_criteria_late(e, deadline_elapsed, last_token_id, eos_token_id, has_text, text) ==
    IF e.has_deadline /\ deadline_elapsed THEN TimeLimit
    ELSE IF e.generated_tokens < e.min_new_tokens THEN NotFinished
    ELSE IF last_token_id = eos_token_id THEN EosToken
    ELSE IF e.generated_tokens > e.max_new_tokens + 1
         THEN (IF e.max_is_token_limit THEN TokenLimit ELSE MaxTokens)
    ELSE IF matches_stop_sequence(e, has_text, text) THEN StopSequence
    ELSE NotFinished

\* TokenProcessor::check_stopping_criteria; deadline_elapsed is
\* `Instant::now() > deadline`
check_stopping_criteria(e, deadline_elapsed, last_token_id, eos_token_id, has_text, text) ==
    IF e.has_deadline /\ deadline_elapsed THEN TimeLimit
    ELSE IF e.generated_tokens < e.min_new_tokens THEN NotFinished
    ELSE IF last_token_id = eos_token_id THEN EosToken
    ELSE IF e.generated_tokens >= e.max_new_tokens
         THEN (IF e.max_is_token_limit THEN TokenLimit ELSE MaxTokens)
    ELSE IF matches_stop_sequence(e, has_text, text) THEN StopSequence
    ELSE NotFinished

-----------------------------------------------------------------------------
(* The state the batching task works on, as one record, so that the steps  *)
(* of one handler compose.                                                 *)

Cur == [entries |-> entries, ent |-> ent, sent |-> sent, gh |-> gh,
        chan |-> chan, buffer |-> buffer, qh |-> qh, srv |-> srv,
        health |-> generation_health, panic |-> FALSE]

Commit(st) ==
    /\ entries' = st.entries
    /\ ent' = st.ent
    /\ sent' = st.sent
    /\ gh' = st.gh
    /\ chan' = st.chan
    /\ buffer' = st.buffer
    /\ qh' = st.qh
    /\ srv' = st.srv
    /\ generation_health' = st.health

\* Entry::send_final: the one-shot sender or the stream sender; a closed
\* receiver is not an error
send_final(st, id, ev) ==
    [st EXCEPT !.gh[id].finals = @ + 1,
               !.sent[id] = IF rx_open[id] THEN Append(@, ev) ELSE @]

\* self.entries.remove(&request_id)
remove(st, id, reason) ==
    [st EXCEPT !.entries = @ \ {id},
               !.gh[id].removals = @ + 1,
               !.gh[id].reason = reason]

\* send_errors: `entry.send_final(Err(..))` for each removed entry
RECURSIVE send_error_to(_, _)
send_error_to(st, ids) ==
    IF ids = <<>> THEN st
    ELSE send_error_to(remove(send_final(st, Head(ids), EvErr(0)), Head(ids), Error),
                       Tail(ids))

\* a send_errors that fails the entries above the first one only
send_errors_but_first(st, start_id) ==
    send_error_to(st, SortedSeq({id \in st.entries : \E low \in st.entries : low < id}))

\* TokenProcessor::send_errors: `entries.retain(..)` keeps the ids below
\* start_id when one is given
send_errors(st, start_id) ==
    send_error_to(st, SortedSeq({id \in st.entries :
                                    ~(start_id # NoneId /\ id < start_id)}))

\* a process_input_tokens that drops the input tokens it is given
process_input_tokens_dropped(st, inputs) == st

\* TokenProcessor::process_input_tokens
RECURSIVE process_input_tokens(_, _)
process_input_tokens(st, inputs) ==
    IF inputs = <<>> \/ st.panic THEN st
    ELSE LET id == Head(inputs)
         IN IF id \notin st.entries \/ st.ent[id].generated_tokens # 0
            THEN [st EXCEPT !.panic = TRUE]
            ELSE process_input_tokens(
                   IF st.ent[id].stream
                   THEN [st EXCEPT !.sent[id] = IF rx_open[id] THEN Append(@, EvInput) ELSE @]
                   ELSE [st EXCEPT !.ent[id].input_tokens = TRUE],
                   Tail(inputs))

\* process_next_tokens: `entry.output = Some(IncrementalDecoder::new(..))`
\* on the first token of an entry with stop sequences
init_decoder(e) ==
    IF e.generated_tokens = 0 /\ e.stop_seqs # {}
    THEN [e EXCEPT !.has_output = TRUE, !.output = EmptyDec]
    ELSE e

\* a count_token that counts a token twice
count_token_twice(e, tok) ==
    [e EXCEPT !.generated_tokens = @ + 2,
              !.token_ids = IF e.stream THEN @ ELSE Append(@, tok)]

\* process_next_tokens: `entry.generated_tokens += 1` and, for a unary
\* request, `entry.token_ids.push(token_id)`
count_token(e, tok) ==
    [e EXCEPT !.generated_tokens = @ + 1,
              !.token_ids = IF e.stream THEN @ ELSE Append(@, tok)]

\* process_next_tokens: the entry after a successful flush of its decoder
flushed(e, fl) ==
    IF e.has_output /\ ~fl.err THEN [e EXCEPT !.output = fl.dec] ELSE e

\* process_next_tokens: the terminal response of a finished entry
final_response(token, e, text, stop_reason, fl) ==
    IF e.has_output /\ fl.err THEN EvErr(0)
    ELSE IF e.stream
         THEN stream_final(token, IF e.has_output THEN text \o fl.text ELSE <<>>, e, stop_reason)
         ELSE unary(e, stop_reason)

\* a finish that sends an in-progress event after the terminal response
finish_then_inprog(st, o, e, text, stop_reason, fl) ==
    [st |-> [send_final(remove([st EXCEPT !.ent[o.id] = flushed(e, fl)], o.id, stop_reason),
                        o.id, final_response(o.tok, flushed(e, fl), text, stop_reason, fl))
               EXCEPT !.sent[o.id] =
                   IF e.stream /\ rx_open[o.id]
                   THEN Append(@, stream_inprog(o.tok, e.generated_tokens, text))
                   ELSE @],
     done |-> TRUE]

\* process_next_tokens: a stop reason was found: remove the entry, flush
\* the decoder (fl) and send the terminal response
finish(st, o, e, text, stop_reason, fl) ==
    [st |-> send_final(
               remove([st EXCEPT !.ent[o.id] = flushed(e, fl)], o.id,
                      IF e.has_output /\ fl.err THEN Error ELSE stop_reason),
               o.id, final_response(o.tok, flushed(e, fl), text, stop_reason, fl)),
     done |-> TRUE]

\* a dispatch that polls a unary request's receiver every 32 tokens and a
\* stream's every other token
dispatch_slow(st, o, e, text, stop_reason) ==
    IF stop_reason # NotFinished
    THEN finish(st, o, e, text, stop_reason, DecFlush(e.output, o.fl))
    ELSE IF (e.generated_tokens % (IF e.stream THEN 2 ELSE 2 * CancelPollEvery) = 0)
            /\ ~rx_open[o.id]
    THEN [st |-> remove([st EXCEPT !.ent[o.id] = e], o.id, Cancelled), done |-> TRUE]
    ELSE [st |-> [st EXCEPT !.ent[o.id] = e], done |-> FALSE]

\* process_next_tokens: what is done with the entry once stop_reason is known
dispatch(st, o, e, text, stop_reason) ==
    IF stop_reason # NotFinished
    THEN finish(st, o, e, text, stop_reason, DecFlush(e.output, o.fl))
    ELSE IF e.stream
    THEN IF rx_open[o.id]
         THEN [st |-> [st EXCEPT !.ent[o.id] = e,
                                 !.sent[o.id] =
                                     Append(@, stream_inprog(o.tok, e.generated_tokens, text)),
                                 !.gh[o.id].late = IF expired[o.id] THEN @ + 1 ELSE @],
               done |-> FALSE]
         ELSE [st |-> remove([st EXCEPT !.ent[o.id] = e], o.id, Cancelled),
               done |-> TRUE]
    ELSE IF e.generated_tokens % CancelPollEvery = 0 /\ ~rx_open[o.id]
    THEN [st |-> remove([st EXCEPT !.ent[o.id] = e], o.id, Cancelled), done |-> TRUE]
    ELSE [st |-> [st EXCEPT !.ent[o.id] = e], done |-> FALSE]

\* a decoded that answers a decoder error and goes on with the token
decoded_no_abort(st, o, e, dec, text) ==
    dispatch(IF e.has_output /\ dec.err
             THEN send_final([st EXCEPT !.ent[o.id] = e], o.id, EvErr(0))
             ELSE st,
             o, e, text,
             check_stopping_criteria(e, expired[o.id], o.tok, EosTokenId,
                                     e.has_output, text))

\* process_next_tokens: dec is the decoder's answer for the token; an error
\* aborts the request, otherwise the stopping criteria are evaluated
decoded(st, o, e, dec, text) ==
    IF e.has_output /\ dec.err
    THEN [st |-> remove(send_final([st EXCEPT !.ent[o.id] = e], o.id, EvErr(0)),
                        o.id, Error),
          done |-> TRUE]
    ELSE dispatch(st, o, e, text,
                  check_stopping_criteria(e, expired[o.id], o.tok, EosTokenId,
                                          e.has_output, text))

\* process_next_tokens: the entry e, already counted, meets its decoder
decode_token(st, o, e, dec) ==
    decoded(st, o, IF e.has_output /\ ~dec.err THEN [e EXCEPT !.output = dec.dec] ELSE e,
            dec, IF e.has_output THEN dec.text ELSE <<>>)

\* process_next_tokens: the entry e, already counted, is given token o.tok
take_token(st, o, e) == decode_token(st, o, e, DecNext(e.output, o.tok))

\* process_next_tokens, the body of the loop over `outputs`, for one output
\* o = [id, tok, fl]; fl is whether a flush of the decoder succeeds.
\* Gives the new state and whether the id was pushed to completed_ids.
process_token(st, o) ==
    IF o.id \notin st.entries
    THEN [st |-> [st EXCEPT !.panic = TRUE], done |-> FALSE]
    ELSE take_token(st, o, count_token(init_decoder(st.ent[o.id]), o.tok))

\* process_next_tokens, the body of the loop over `errors`, for one error
process_error(st, id) ==
    IF id \notin st.entries THEN [st EXCEPT !.panic = TRUE]
    ELSE remove(send_final(st, id, EvErr(st.ent[id].generated_tokens)), id, Error)

\* the value process_next_tokens returns: None ("all") or Some(completed_ids)
completed_result(completed_ids, request_count) ==
    IF Cardinality(completed_ids) = request_count
    THEN [some |-> FALSE, completed_ids |-> {}]
    ELSE [some |-> TRUE, completed_ids |-> completed_ids]

\* process_next_tokens: `for output in outputs.into_iter()`
RECURSIVE process_outputs(_, _)
process_outputs(a, outs) ==
    IF outs = <<>> \/ a.st.panic THEN a
    ELSE LET r == process_token(a.st, Head(outs))
         IN process_outputs(
                [st |-> r.st,
                 completed |-> IF r.done THEN a.completed \cup {Head(outs).id}
                               ELSE a.completed],
                Tail(outs))

\* process_next_tokens: `for error in errors.into_iter()`
RECURSIVE process_errors(_, _)
process_errors(a, errs) ==
    IF errs = <<>> \/ a.st.panic THEN a
    ELSE process_errors([st |-> process_error(a.st, Head(errs)),
                         completed |-> a.completed \cup {Head(errs)}],
                        Tail(errs))

\* process_next_tokens: the value returned after both loops
next_tokens_status(b, request_count) ==
    [st |-> b.st, status |-> completed_result(b.completed, request_count)]

\* TokenProcessor::process_next_tokens(outputs, errors)
process_next_tokens(st, outputs, errors) ==
    next_tokens_status(
        process_errors(process_outputs([st |-> st, completed |-> {}], outputs), errors),
        Len(outputs))

\* wrap_future: `Ok(Some(..))`: the health flag and Some(CachedBatch); a
\* panic in the processing before it leaves the flag as it was
cached_some(r, batch_id) ==
    [st |-> [r.st EXCEPT !.health = IF r.st.panic THEN @ ELSE TRUE],
     cached |-> [some |-> TRUE, batch_id |-> batch_id, status |-> r.status]]

\* wrap_future: no batch is handed back
cached_none(st) ==
    [st |-> st,
     cached |-> [some |-> FALSE, batch_id |-> 0,
                 status |-> [some |-> FALSE, completed_ids |-> {}]]]

\* wrap_future: `match future.await`, with the kind of the result noted in
\* the history
matched(st, res, start_id) ==
    IF res.kind = "some"
    THEN cached_some(process_next_tokens(process_input_tokens(st, res.inputs),
                                         res.outputs, res.errors),
                     res.batch_id)
    ELSE IF res.kind = "none"
    THEN cached_none(st)
    ELSE cached_none(send_errors([st EXCEPT !.health = FALSE], start_id))

\* a backend result: res.kind is "some", "none" or "err"
\* TokenProcessor::wrap_future(future, start_id): the state and Option<CachedBatch>
wrap_future(st, res, start_id) ==
    matched([st EXCEPT !.qh.last = res.kind], res, start_id)

-----------------------------------------------------------------------------
(* Queue: FIFO of pending entries fed by the channel *)

\* an enqueue_request that puts the call at the head of the channel
enqueue_request_front(ch, ids, queue_size) ==
    IF Len(ch) < queue_size
    THEN [ok |-> TRUE, chan |-> <<ids>> \o ch]
    ELSE [ok |-> FALSE, chan |-> ch]

\* an enqueue_request that takes one call more than the capacity
enqueue_request_extra(ch, ids, queue_size) ==
    IF Len(ch) <= queue_size
    THEN [ok |-> TRUE, chan |-> Append(ch, ids)]
    ELSE [ok |-> FALSE, chan |-> ch]

\* an enqueue_request on an unbounded channel
enqueue_request_unbounded(ch, ids, queue_size) ==
    [ok |-> TRUE, chan |-> Append(ch, ids)]

\* Batcher::enqueue_request: Sender::try_send on channel(queue_size); one
\* call's Vec<Entry> is one message.  Gives the channel, or "full".
enqueue_request(ch, ids, queue_size) ==
    IF Len(ch) < queue_size
    THEN [ok |-> TRUE, chan |-> Append(ch, ids)]
    ELSE [ok |-> FALSE, chan |-> ch]

\* the deadline pre-screen: an expired entry is answered with early_timeout
\* and dropped from the queue
RECURSIVE prescreen(_, _)
prescreen(a, ids) ==
    IF ids = <<>> THEN a
    ELSE IF a.st.ent[Head(ids)].has_deadline /\ expired[Head(ids)]
    THEN prescreen([st |-> [send_final(a.st, Head(ids), early_timeout)
                               EXCEPT !.gh[Head(ids)].reason = TimeLimit],
                    kept |-> a.kept],
                   Tail(ids))
    ELSE prescreen([st |-> a.st, kept |-> Append(a.kept, Head(ids))], Tail(ids))

\* try_next_batch: the first k screened entries become batch `no` and enter
\* the in-flight map; the others stay buffered
form_batch(st, kept, k, no) ==
    IF k = 0
    THEN [st |-> [st EXCEPT !.buffer = kept], batch |-> <<>>, batch_id |-> 0]
    ELSE [st |-> [st EXCEPT
                    !.buffer = SubSeq(kept, k + 1, Len(kept)),
                    !.entries = @ \cup Range(SubSeq(kept, 1, k)),
                    !.qh.nbatches = no,
                    !.gh = [i \in DOMAIN @ |->
                              IF i \in Range(SubSeq(kept, 1, k))
                              THEN [@[i] EXCEPT !.batch_no = no]
                              ELSE @[i]]],
          batch |-> SubSeq(kept, 1, k), batch_id |-> no]

\* try_next_batch: the FIFO prefix that fits beside the in-flight entries
take_prefix(scr, room) ==
    form_batch(scr.st, scr.kept, Min(Len(scr.kept), Max(room, 0)),
               scr.st.qh.nbatches + 1)

\* Queue::try_next_batch(entries): receive what the channel holds, screen
\* deadlines, take the FIFO prefix that fits beside the in-flight entries
\* and insert it in the in-flight map
try_next_batch(st) ==
    take_prefix(prescreen([st |-> [st EXCEPT !.chan = <<>>], kept |-> <<>>],
                          st.buffer \o Flatten(st.chan)),
                cfg.size_limit - Cardinality(st.entries))

-----------------------------------------------------------------------------
(* Backend: a cache of batches; a call prunes what the router reports as   *)
(* completed, then yields one token or one error per entry it still holds. *)

\* the entries a pruned batch keeps; a CachedBatch whose status is absent
\* stands for "all completed"
kept_ids(ids, status) == IF status.some THEN ids \ status.completed_ids ELSE {}

prune_one(c, cb) ==
    IF cb.batch_id \notin DOMAIN c THEN c
    ELSE IF kept_ids(c[cb.batch_id], cb.status) = {}
    THEN [b \in DOMAIN c \ {cb.batch_id} |-> c[b]]
    ELSE [c EXCEPT ![cb.batch_id] = kept_ids(@, cb.status)]

RECURSIVE prune_all(_, _)
prune_all(c, cbs) ==
    IF cbs = <<>> THEN c ELSE prune_all(prune_one(c, Head(cbs)), Tail(cbs))

\* what the backend may answer for one entry, in the scenario explored
Choices(id) ==
    {[err |-> FALSE, tok |-> t, fl |-> f] :
        t \in (IF cfg.scen \in {"tok", "stream", "min"} /\ ent[id].stop_seqs # {}
               THEN {EosTokenId, TokA, TokB, TokPart, TokBad}
               ELSE IF cfg.scen \in {"cancel", "queue"} THEN {TokA}
               ELSE {EosTokenId, TokA}),
        f \in (IF ent[id].stop_seqs # {} THEN BOOLEAN ELSE {TRUE})}
    \cup (IF cfg.scen \in {"cancel", "queue"} THEN {}
          ELSE {[err |-> TRUE, tok |-> 0, fl |-> TRUE]})

ChoiceMaps(ids) ==
    {ch \in [ids -> UNION {Choices(i) : i \in ids}] : \A i \in ids : ch[i] \in Choices(i)}

\* the tokens of a result, for the entries the backend did not fail
RECURSIVE token_outputs(_, _)
token_outputs(ids, ch) ==
    IF ids = <<>> THEN <<>>
    ELSE (IF ch[Head(ids)].err THEN <<>>
          ELSE <<[id |-> Head(ids), tok |-> ch[Head(ids)].tok, fl |-> ch[Head(ids)].fl]>>)
         \o token_outputs(Tail(ids), ch)

\* the errors of a result, for the entries the backend failed
RECURSIVE token_errors(_, _)
token_errors(ids, ch) ==
    IF ids = <<>> THEN <<>>
    ELSE (IF ch[Head(ids)].err THEN <<Head(ids)>> ELSE <<>>) \o token_errors(Tail(ids), ch)

\* Some((generated_tokens, input_tokens, errors, next_batch_id))
some_result(ids, ch, inputs, batch_id) ==
    [kind |-> "some", outputs |-> token_outputs(ids, ch),
     errors |-> token_errors(ids, ch), inputs |-> inputs, batch_id |-> batch_id]

other_result(kind) ==
    [kind |-> kind, outputs |-> <<>>, errors |-> <<>>, inputs |-> <<>>, batch_id |-> 0]

\* the input-token infos a prefill returns: for the entries that asked for them
InputChoices(ids) == IF cfg.scen = "tok" THEN {ids, <<>>} ELSE {ids}

\* whether the backend may fail a whole call, in the scenario explored
CallMayFail == cfg.scen # "queue"

\* prefill on the pruned cache: pairs <<result, cache afterwards>>
prefill_on(c, pruned) ==
    {<<some_result(c.ids, ch, inputs, c.batch_id),
       [b \in DOMAIN pruned \cup {c.batch_id} |->
           IF b = c.batch_id THEN Range(c.ids) ELSE pruned[b]]>> :
         ch \in ChoiceMaps(Range(c.ids)), inputs \in InputChoices(c.ids)}
    \cup (IF CallMayFail
          THEN {<<other_result("err"), after>> : after \in {srv, pruned}}
          ELSE {})

\* ShardedClient::prefill(batch, to_prune): pairs <<result, cache afterwards>>
prefill_results(c) == prefill_on(c, prune_all(srv, c.to_prune))

\* the batch ids of a next_token call
batch_ids(bs) == {bs[i].batch_id : i \in 1..Len(bs)}

\* the id the merged batch keeps: that of the first batch still held
merged_id(bs, held) ==
    bs[CHOOSE i \in 1..Len(bs) :
          /\ bs[i].batch_id \in held
          /\ \A j \in 1..(i - 1) : bs[j].batch_id \notin held].batch_id

\* next_token on the pruned cache: one token or error per live entry
next_token_on(bs, pruned, live, merged) ==
    IF live = {}
    THEN {<<other_result("none"), pruned>>}
    ELSE {<<some_result(SortedSeq(live), ch, <<>>, merged),
            [b \in (DOMAIN pruned \ batch_ids(bs)) \cup {merged} |->
                IF b = merged THEN live ELSE pruned[b]]>> :
             ch \in ChoiceMaps(live)}

\* next_token: the entries the named batches still hold after pruning
next_token_live(bs, pruned) ==
    next_token_on(bs, pruned,
                  UNION {pruned[b] : b \in batch_ids(bs) \cap DOMAIN pruned},
                  IF batch_ids(bs) \cap DOMAIN pruned = {} THEN 0
                  ELSE merged_id(bs, batch_ids(bs) \cap DOMAIN pruned))

\* ShardedClient::next_token(batches): pairs <<result, cache afterwards>>;
\* a failed call loses the batches it was given
next_token_results(c) ==
    next_token_live(c.batches, prune_all(srv, c.batches))
    \cup (IF CallMayFail
          THEN {<<other_result("err"),
                  [b \in DOMAIN srv \ batch_ids(c.batches) |-> srv[b]]>>}
          ELSE {})

-----------------------------------------------------------------------------
(* The batching task *)

NoCall == [batch_id |-> 0, ids |-> <<>>, to_prune |-> <<>>, start_id |-> NoneId,
           batches |-> <<>>]

prefill_call(batch_id, ids, to_prune, start_id) ==
    [batch_id |-> batch_id, ids |-> ids, to_prune |-> to_prune, start_id |-> start_id,
     batches |-> <<>>]

next_token_call(bs) ==
    [batch_id |-> 0, ids |-> <<>>, to_prune |-> <<>>, start_id |-> NoneId, batches |-> bs]

some_completed(batch) == IF batch.status.some THEN batch.status.completed_ids # {} ELSE TRUE

\* a should_try_to_grow_batch without a warm-up once max_waiting_tokens is reached
should_try_to_grow_batch_nowarm(n_entries, waiting_too_long, max_batch_size, wt, max_waiting_tokens, requests_completed) ==
    /\ n_entries < max_batch_size
    /\ \/ wt >= max_waiting_tokens
       \/ wt > WarmupTokens /\ (requests_completed \/ waiting_too_long)

\* a should_try_to_grow_batch whose warm-up ends one token early
should_try_to_grow_batch_early(n_entries, waiting_too_long, max_batch_size, wt, max_waiting_tokens, requests_completed) ==
    /\ wt >= WarmupTokens
    /\ n_entries < max_batch_size
    /\ \/ wt >= max_waiting_tokens
       \/ requests_completed
       \/ waiting_too_long

should_try_to_grow_batch(n_entries, waiting_too_long, max_batch_size, wt, max_waiting_tokens, requests_completed) ==
    /\ wt > WarmupTokens
    /\ n_entries < max_batch_size
    /\ \/ wt >= max_waiting_tokens
       \/ requests_completed
       \/ waiting_too_long

\* Queue::next_entry_waiting_too_long: false without a pending entry, else
\* decided by the clock (tl)
next_entry_waiting_too_long(st, tl) == (st.buffer # <<>> \/ st.chan # <<>>) /\ tl

\* the task's locals when it goes back to `queue.next_batch(..).await`
to_wait(st) ==
    [st |-> [st EXCEPT !.qh.since = 0], pc |-> "wait", call |-> NoCall, batches |-> <<>>,
     wt |-> 0]

\* the task's locals when it calls `client.next_token(batches)`
to_step(st, bs, wt) ==
    [st |-> st, pc |-> "step", call |-> next_token_call(bs), batches |-> bs, wt |-> wt]

\* a to_prune that is the batches only for a status with completed ids
to_prune_of_listed(bs) ==
    IF bs[1].status.some /\ bs[1].status.completed_ids # {} THEN bs ELSE <<>>

\* `let to_prune = match &batches[0].status { .. }`
to_prune_of(bs) ==
    IF bs[1].status.some /\ bs[1].status.completed_ids = {} THEN <<>> ELSE bs

\* `if let Some(new_batch) = queue.try_next_batch(..)`: the growth prefill
\* is called, or else next_token
grow_or_step(q, bs, wt) ==
    IF q.batch # <<>>
    THEN [st |-> q.st, pc |-> "grow",
          call |-> prefill_call(q.batch_id, q.batch, to_prune_of(bs), Head(q.batch)),
          batches |-> bs, wt |-> wt]
    ELSE to_step(q.st, bs, wt)

\* the body of `while let Some(batch) = cached_batch` up to its next await
loop_body(st, bs, wt, tl) ==
    IF should_try_to_grow_batch(
           Cardinality(st.entries), next_entry_waiting_too_long(st, tl),
           cfg.size_limit, wt, cfg.max_waiting_tokens, some_completed(bs[1]))
    THEN grow_or_step(try_next_batch(st), bs, wt)
    ELSE to_step(st, bs, wt)

\* `while let Some(batch) = cached_batch { ... }` up to the next await:
\* the growth decision, try_next_batch and the backend call made
loop_head(st, cached, wt, tl) ==
    IF ~cached.some THEN to_wait(st)
    ELSE loop_body(st, <<[batch_id |-> cached.batch_id, status |-> cached.status]>>,
                   wt, tl)

\* the task's locals and the processor's state after a handler
Resume(r) ==
    /\ Commit(r.st)
    /\ IF r.st.panic
       THEN pc' = "panic" /\ call' = NoCall /\ batches' = <<>> /\ waiting_tokens' = 0
       ELSE pc' = r.pc /\ call' = r.call /\ batches' = r.batches /\ waiting_tokens' = r.wt

\* the first prefill of a batch the queue handed out
first_call(q) ==
    IF q.batch = <<>> THEN to_wait(q.st)
    ELSE [st |-> q.st, pc |-> "prefill",
          call |-> prefill_call(q.batch_id, q.batch, <<>>, NoneId),
          batches |-> <<>>, wt |-> 0]

\* `queue.next_batch(processor.entries()).await` resolves; prefill is called
NextBatchReturns ==
    /\ pc = "wait"
    /\ chan # <<>> \/ buffer # <<>>
    /\ Resume(first_call(try_next_batch(Cur)))
    /\ UNCHANGED <<cfg, rx_open, expired, probe, rs>>

\* the loop is entered, or re-entered, with what wrap_future gave
enter_loop(w, wt, tl) == Resume(loop_head(w.st, w.cached, wt, tl))

\* `client.prefill(batch, vec![])` resolves
PrefillReturns ==
    /\ pc = "prefill"
    /\ \E res \in prefill_results(call), tl \in BOOLEAN :
          enter_loop(wrap_future([Cur EXCEPT !.srv = res[2], !.qh.since = 0],
                                 res[1], NoneId), 1, tl)
    /\ UNCHANGED <<cfg, rx_open, expired, probe, rs>>

\* a hack that keeps the old batch when its status is absent
cleared_kept(bs) ==
    IF bs[1].status.some THEN <<[bs[1] EXCEPT !.status.completed_ids = {}]>> ELSE bs

\* the hack: the old batch is kept with its completed ids cleared, or
\* dropped when its status is absent
cleared(bs) ==
    IF bs[1].status.some THEN <<[bs[1] EXCEPT !.status.completed_ids = {}]>> ELSE <<>>

\* `batches.push(new_cached_batch)` when the growth prefill gave a batch
extended(old, cached) ==
    IF cached.some
    THEN Append(old, [batch_id |-> cached.batch_id, status |-> cached.status])
    ELSE old

\* after the growth prefill: waiting_tokens = 1 and next_token is called
after_growth(w, bs) == Resume(to_step(w.st, extended(cleared(bs), w.cached), 1))

\* the growth `client.prefill(new_batch, to_prune)` resolves; next_token is called
GrowPrefillReturns ==
    /\ pc = "grow"
    /\ \E res \in prefill_results(call) :
          after_growth(wrap_future([Cur EXCEPT !.srv = res[2], !.qh.since = 0],
                                   res[1], call.start_id),
                       batches)
    /\ UNCHANGED <<cfg, rx_open, expired, probe, rs>>

\* `client.next_token(batches)` resolves
NextTokenReturns ==
    /\ pc = "step"
    /\ \E res \in next_token_results(call), tl \in BOOLEAN :
          enter_loop(wrap_future([Cur EXCEPT !.srv = res[2], !.qh.since = @ + 1],
                                 res[1], NoneId),
                     waiting_tokens + 1, tl)
    /\ UNCHANGED <<cfg, rx_open, expired, probe, rs>>

-----------------------------------------------------------------------------
(* Scenarios: the configuration given to Batcher::new and the requests and  *)
(* backend answers explored                                                 *)

Profile(stream, min_new, max_new, limit, stops, deadline) ==
    [stream |-> stream, min_new_tokens |-> min_new, max_new_tokens |-> max_new,
     max_is_token_limit |-> limit, stop_seqs |-> stops, has_deadline |-> deadline]

Profiles ==
    IF cfg.scen = "sched"
    THEN {Profile(s, 0, MaxNewSched, FALSE, {}, FALSE) : s \in BOOLEAN}
    ELSE IF cfg.scen = "tok"
    THEN {Profile(s, mn, mx, l, st, d) :
             s \in BOOLEAN, mn \in {0, 2}, mx \in {1, MaxNewTok}, l \in BOOLEAN,
             st \in {{}, {<<1, 2>>}}, d \in BOOLEAN}
    ELSE IF cfg.scen = "cancel"
    THEN {Profile(s, 0, MaxNewCancel, FALSE, {}, FALSE) : s \in BOOLEAN}
    ELSE IF cfg.scen \in {"grow", "warm"}
    THEN {Profile(FALSE, 0, MaxNewSched, FALSE, {}, FALSE)}
    ELSE IF cfg.scen = "stream"
    THEN {Profile(TRUE, 0, MaxNewTok, FALSE, st, FALSE) : st \in {{}, {<<1, 2>>}}}
    ELSE IF cfg.scen = "min"
    THEN {Profile(s, MinNewTok, MinNewTok + 2, FALSE, st, FALSE) :
             s \in BOOLEAN, st \in {{<<1>>}, {<<1, 2>>}}}
    ELSE {Profile(s, 0, 1, FALSE, {}, FALSE) : s \in BOOLEAN}

Config(scen) ==
    IF scen \in {"sched", "warm"}
    THEN [scen |-> scen, queue_size |-> QueueSize, size_limit |-> BatchSizeLimit,
          max_waiting_tokens |-> MaxWaitingTokens,
          max_entries |-> MaxEntries, max_calls |-> MaxEntries]
    ELSE IF scen \in {"tok", "cancel", "stream", "min"}
    THEN [scen |-> scen, queue_size |-> QueueSize, size_limit |-> BatchSizeLimit,
          max_waiting_tokens |-> MaxWaitingTokens,
          max_entries |-> 1, max_calls |-> 1]
    ELSE IF scen = "grow"
    THEN [scen |-> scen, queue_size |-> QueueSize, size_limit |-> BatchSizeLimit + 1,
          max_waiting_tokens |-> MaxWaitingTokens,
          max_entries |-> BatchSizeLimit + 1, max_calls |-> 2]
    ELSE [scen |-> scen, queue_size |-> QueueSize, size_limit |-> BatchSizeLimit,
          max_waiting_tokens |-> MaxWaitingTokens,
          max_entries |-> QueueSize + 2, max_calls |-> QueueSize + 1]

-----------------------------------------------------------------------------
(* Callers *)

QueuedIds == Range(buffer) \cup Range(Flatten(chan))

\* the caller's part of infer / infer_batch / infer_stream up to the return
\* of enqueue_request; first is what the reply channel holds before the call
Enqueue(ps, first) ==
    LET n == Len(ps)
        base == Len(ent)
        ids == [i \in 1..n |-> base + i]
        r == enqueue_request(chan, ids, cfg.queue_size)
        h == [qh EXCEPT !.issued = @ + 1, !.last_n = n,
                        !.refused = IF r.ok THEN @ ELSE @ + 1]
    IN /\ qh.issued < cfg.max_calls
       /\ base + n <= cfg.max_entries
       /\ qh' = h
       /\ chan' = r.chan
       /\ IF r.ok
          THEN /\ ent' = ent \o [i \in 1..n |-> NewEntry(ps[i])]
               /\ rx_open' = rx_open \o [i \in 1..n |-> TRUE]
               /\ expired' = expired \o [i \in 1..n |-> FALSE]
               /\ sent' = sent \o [i \in 1..n |-> first]
               /\ gh' = gh \o [i \in 1..n |-> NewHist]
               /\ rs' = rs \o [i \in 1..n |->
                                 IF ps[i].stream THEN NewStream(ps[i]) ELSE NoStream]
          ELSE UNCHANGED <<ent, rx_open, expired, sent, gh, rs>>
       /\ UNCHANGED <<cfg, buffer, entries, pc, call, batches, waiting_tokens, srv,
                      generation_health, probe>>

\* Batcher::infer
Infer == \E p \in Profiles : ~p.stream /\ Enqueue(<<p>>, <<>>)

\* Batcher::infer_batch
InferBatch == \E p1, p2 \in Profiles : ~p1.stream /\ ~p2.stream /\ Enqueue(<<p1, p2>>, <<>>)

\* Batcher::infer_stream: the first response is sent before the enqueue
InferStream == \E p \in Profiles : p.stream /\ Enqueue(<<p>>, <<EvInit>>)

-----------------------------------------------------------------------------
(* Environment *)

Pending(id) == id \in entries \/ id \in QueuedIds

\* the client drops its receiver (the response future or the ResponseStream)
ClientDrop ==
    \E id \in DOMAIN ent :
       /\ Pending(id)
       /\ rx_open[id]
       /\ rx_open' = [rx_open EXCEPT ![id] = FALSE]
       /\ gh' = [gh EXCEPT ![id].drop_at = ent[id].generated_tokens]
       /\ rs' = IF ent[id].stream THEN [rs EXCEPT ![id] = drop_stream(@)] ELSE rs
       /\ UNCHANGED <<cfg, chan, buffer, entries, ent, expired, sent, pc, call, batches,
                      waiting_tokens, srv, generation_health, qh, probe>>

\* the caller of infer_stream polls its ResponseStream: one response is
\* received; ok is whether the tokenizer decodes what a flush is given
PollNext ==
    \E id \in DOMAIN ent, ok \in BOOLEAN :
       /\ ent[id].stream
       /\ rs[id].open
       /\ rs[id].pos < Len(sent[id])
       /\ rs' = [rs EXCEPT ![id] = poll_next(@, sent[id][rs[id].pos + 1], ok)]
       /\ UNCHANGED <<cfg, chan, buffer, entries, ent, rx_open, expired, sent, pc, call,
                      batches, waiting_tokens, srv, generation_health, gh, qh, probe>>

\* the caller of infer_stream drops its ResponseStream, during the
\* generation or after it
DropStream ==
    \E id \in DOMAIN ent :
       /\ ent[id].stream
       /\ rs[id].open
       /\ rx_open' = [rx_open EXCEPT ![id] = FALSE]
       /\ gh' = IF Pending(id) THEN [gh EXCEPT ![id].drop_at = ent[id].generated_tokens]
                ELSE gh
       /\ rs' = [rs EXCEPT ![id] = drop_stream(@)]
       /\ UNCHANGED <<cfg, chan, buffer, entries, ent, expired, sent, pc, call, batches,
                      waiting_tokens, srv, generation_health, qh, probe>>

\* the clock passes an entry's deadline
DeadlinePasses ==
    \E id \in DOMAIN ent :
       /\ Pending(id)
       /\ ent[id].has_deadline
       /\ ~expired[id]
       /\ expired' = [expired EXCEPT ![id] = TRUE]
       /\ UNCHANGED <<cfg, chan, buffer, entries, ent, rx_open, sent, pc, call, batches,
                      waiting_tokens, srv, generation_health, gh, qh, probe, rs>>

-----------------------------------------------------------------------------
(* Specifications *)

\* the state after Batcher::new
ConstructedWith(c) ==
    /\ cfg = c
    /\ chan = <<>>
    /\ buffer = <<>>
    /\ entries = {}
    /\ ent = <<>>
    /\ rx_open = <<>>
    /\ expired = <<>>
    /\ sent = <<>>
    /\ pc = "wait"
    /\ call = NoCall
    /\ batches = <<>>
    /\ waiting_tokens = 0
    /\ srv = <<>>
    /\ generation_health = TRUE
    /\ gh = <<>>
    /\ qh = [issued |-> 0, refused |-> 0, nbatches |-> 0, last_n |-> 0, last |-> "none",
             since |-> 0]
    /\ rs = <<>>

Constructed(scen) == ConstructedWith(Config(scen))

NoProbe == [fn |-> "none"]

InitWith(scen) == Constructed(scen) /\ probe = NoProbe

Init == InitWith("sched")

BatchingTask ==
    \/ NextBatchReturns
    \/ PrefillReturns
    \/ GrowPrefillReturns
    \/ NextTokenReturns

\* scheduling of several requests whose clients stay: batches, growth,
\* pruning, backend errors
Next ==
    \/ Infer
    \/ InferStream
    \/ BatchingTask

Spec == Init /\ [][Next]_vars

\* token processing of one request: stop sequences, decoder, deadline, limits
InitTok == InitWith("tok")

NextTok ==
    \/ Infer
    \/ InferStream
    \/ ClientDrop
    \/ DeadlinePasses
    \/ NextBatchReturns
    \/ PrefillReturns
    \/ NextTokenReturns

SpecTok == InitTok /\ [][NextTok]_vars

\* one long request whose client may leave at any time
InitCancel == InitWith("cancel")

NextCancel ==
    \/ Infer
    \/ InferStream
    \/ ClientDrop
    \/ NextBatchReturns
    \/ PrefillReturns
    \/ NextTokenReturns

SpecCancel == InitCancel /\ [][NextCancel]_vars

\* more calls than the channel holds, each of one or two short requests
InitQueue == InitWith("queue")

NextQueue ==
    \/ Infer
    \/ InferBatch
    \/ InferStream
    \/ ClientDrop
    \/ NextBatchReturns
    \/ PrefillReturns
    \/ NextTokenReturns

SpecQueue == InitQueue /\ [][NextQueue]_vars

\* a batch of unary requests joined by a later one: growth beside entries
\* that completed, failed or are still running
InitGrow == InitWith("grow")

NextGrow ==
    \/ Infer
    \/ InferBatch
    \/ BatchingTask

SpecGrow == InitGrow /\ [][NextGrow]_vars

\* unary requests scheduled under a max_waiting_tokens below the warm-up
\* of the growth decision, or above it
InitWarm ==
    \E m \in {WarmupTokens - 2, MaxWaitingTokens} :
       /\ ConstructedWith([Config("warm") EXCEPT !.max_waiting_tokens = m])
       /\ probe = NoProbe

NextWarm ==
    \/ Infer
    \/ BatchingTask

SpecWarm == InitWarm /\ [][NextWarm]_vars

\* one streaming request and the caller that polls and drops its stream
InitStream == InitWith("stream")

NextStream ==
    \/ InferStream
    \/ PollNext
    \/ DropStream
    \/ NextBatchReturns
    \/ PrefillReturns
    \/ NextTokenReturns

SpecStream == InitStream /\ [][NextStream]_vars

\* one request with stop sequences and a minimum number of new tokens
InitMin == InitWith("min")

NextMin ==
    \/ Infer
    \/ InferStream
    \/ NextBatchReturns
    \/ PrefillReturns
    \/ NextTokenReturns

SpecMin == InitMin /\ [][NextMin]_vars

\* the batcher's state but for the probe
batcher == <<cfg, chan, buffer, entries, ent, rx_open, expired, sent, pc, call,
             batches, waiting_tokens, srv, generation_health, gh, qh, rs>>

\* an entry as check_stopping_criteria may meet it: counted tokens, request
\* parameters and, with stop sequences, the decoder's output so far
StopEntry(g, mn, mx, limit, stops, deadline, out) ==
    [NewEntry(Profile(FALSE, mn, mx, limit, stops, deadline))
        EXCEPT !.generated_tokens = g,
               !.has_output = stops # {},
               !.output = [out |-> IF stops # {} THEN out ELSE <<>>, pend |-> <<>>]]

\* decoder output and the text the last token added to it
OutputTexts == {<<<<1, 2>>, <<2>>>>, <<<<1, 1>>, <<1>>>>, <<<<1, 2, 1>>, <<1>>>>}

\* the arguments of check_stopping_criteria explored
StopProbes ==
    {[fn |-> "check_stopping_criteria",
      e |-> StopEntry(g, mn, mx, l, ss, d, ot[1]),
      elapsed |-> x, last_token_id |-> t, has_text |-> ss # {}, text |-> ot[2],
      result |-> "unset"] :
        g \in 1..MaxNewTok, mn \in {0, 2}, mx \in {1, MaxNewTok}, l \in BOOLEAN,
        ss \in {{}, {<<1, 2>>}}, d \in BOOLEAN, ot \in OutputTexts,
        x \in BOOLEAN, t \in {EosTokenId, TokA}}

InitStop == Constructed("tok") /\ probe \in StopProbes

\* check_stopping_criteria(e, last_token_id, eos_token_id, last_text) is called
CheckStop ==
    /\ probe.fn = "check_stopping_criteria"
    /\ probe.result = "unset"
    /\ probe' = [probe EXCEPT !.result =
                    check_stopping_criteria(probe.e, probe.elapsed, probe.last_token_id,
                                            EosTokenId, probe.has_text, probe.text)]
    /\ UNCHANGED batcher

NextStop == CheckStop

\* the status of the batch a backend call gave back: absent, no completed
\* id, or a completed id
Statuses(n) ==
    {[some |-> FALSE, completed_ids |-> {}], [some |-> TRUE, completed_ids |-> {}],
     [some |-> TRUE, completed_ids |-> {n + 2}]}

\* what the growth decision of one loop iteration depends on: n entries in
\* flight, waiting_tokens, the status of the cached batch, whether a request
\* is queued and whether it has waited too long
GrowProbes ==
    {[fn |-> "should_try_to_grow_batch", n |-> n, wt |-> wt, status |-> s,
      queued |-> q, tl |-> tl, applied |-> FALSE, result |-> FALSE] :
        n \in 0..BatchSizeLimit, wt \in 1..(MaxWaitingTokens + 2),
        s \in UNION {Statuses(k) : k \in 0..BatchSizeLimit}, q \in BOOLEAN, tl \in BOOLEAN}

\* the batcher inside its inner loop, as the probe p describes it: batch 1
\* holds the entries 1..n, each with as many tokens as the loop has waited,
\* and entry n + 1 is queued or not
InLoop(p, m) ==
    /\ cfg = [Config("sched") EXCEPT !.max_waiting_tokens = m]
    /\ chan = IF p.queued THEN <<<<p.n + 1>>>> ELSE <<>>
    /\ buffer = <<>>
    /\ entries = 1..p.n
    /\ ent = [i \in 1..(p.n + 1) |->
                [NewEntry(Profile(FALSE, 0, MaxWaitingTokens + MaxNewSched, FALSE, {}, FALSE))
                    EXCEPT !.generated_tokens = IF i <= p.n THEN p.wt ELSE 0]]
    /\ rx_open = [i \in 1..(p.n + 1) |-> TRUE]
    /\ expired = [i \in 1..(p.n + 1) |-> FALSE]
    /\ sent = [i \in 1..(p.n + 1) |-> <<>>]
    /\ pc = "step"
    /\ call = next_token_call(<<[batch_id |-> 1, status |-> [some |-> TRUE, completed_ids |-> {}]]>>)
    /\ batches = call.batches
    /\ waiting_tokens = p.wt - 1
    /\ srv = [b \in {1} |-> 1..p.n]
    /\ generation_health = TRUE
    /\ gh = [i \in 1..(p.n + 1) |-> [NewHist EXCEPT !.batch_no = IF i <= p.n THEN 1 ELSE 0]]
    /\ qh = [issued |-> p.n + 1, refused |-> 0, nbatches |-> 1, last_n |-> 1, last |-> "some",
             since |-> p.wt - 1]
    /\ rs = [i \in 1..(p.n + 1) |-> NoStream]

InitDecide ==
    \E p \in GrowProbes, m \in {WarmupTokens - 2, MaxWaitingTokens + 2} :
       /\ p.status.some /\ p.status.completed_ids # {} => p.status.completed_ids = {p.n + 2}
       /\ p.tl => p.queued
       /\ probe = p
       /\ InLoop(p, m)

\* one iteration of the inner loop up to its backend call, with the value
\* should_try_to_grow_batch has on the same arguments
LoopIteration ==
    /\ probe.fn = "should_try_to_grow_batch"
    /\ ~probe.applied
    /\ Resume(loop_body(Cur, <<[batch_id |-> 1, status |-> probe.status]>>,
                        probe.wt, probe.tl))
    /\ probe' = [probe EXCEPT !.applied = TRUE, !.result =
                    should_try_to_grow_batch(
                        Cardinality(entries), next_entry_waiting_too_long(Cur, probe.tl),
                        cfg.size_limit, probe.wt, cfg.max_waiting_tokens,
                        some_completed([batch_id |-> 1, status |-> probe.status]))]
    /\ UNCHANGED <<cfg, rx_open, expired, rs>>

NextDecide == LoopIteration

\* the growth decision on its own, over the loop states above
SpecDecide == InitDecide /\ [][NextDecide]_vars

\* the stopping criteria on their own, over the entries and tokens above
SpecStop == InitStop /\ [][NextStop]_vars

\* the longest decoder output explored
MaxOutput == 4

\* the decoder outputs explored: the byte strings over two bytes
Outputs == UNION {[1..n -> {1, 2}] : n \in 0..MaxOutput}

\* the last n elements of s
Suffix(s, n) == SubSeq(s, Max(1, Len(s) - n + 1), Len(s))

\* the arguments of matches_stop_sequence explored: the accumulated output,
\* the stop sequences, and the text of the last step, which is the last
\* `added` bytes of the output, or no text at all
MatchProbes ==
    {[fn |-> "matches_stop_sequence",
      e |-> StopEntry(1, 0, MaxNewTok, FALSE, ss, FALSE, out),
      has_text |-> h, added |-> a, applied |-> FALSE, result |-> FALSE] :
        out \in Outputs, a \in 0..MaxOutput, h \in BOOLEAN,
        ss \in {{<<1, 2>>}, {<<2>>}, {<<1, 1>>, <<2, 1, 2>>}}}

InitMatch ==
    /\ Constructed("tok")
    /\ probe \in {p \in MatchProbes : p.added <= Len(p.e.output.out)}

\* matches_stop_sequence(e, last_text) is called
MatchStop ==
    /\ probe.fn = "matches_stop_sequence"
    /\ ~probe.applied
    /\ probe' = [probe EXCEPT !.applied = TRUE, !.result =
                    matches_stop_sequence(probe.e, probe.has_text,
                                          Suffix(probe.e.output.out, probe.added))]
    /\ UNCHANGED batcher

NextMatch == MatchStop

\* the stop-sequence match on its own, over the outputs and texts above
SpecMatch == InitMatch /\ [][NextMatch]_vars

-----------------------------------------------------------------------------
(* Properties *)

IsTerminal(ev) == ev.k \in {"final", "err"}

Terminals(id) == {i \in 1..Len(sent[id]) : IsTerminal(sent[id][i])}

InProgress(id) == {i \in 1..Len(sent[id]) : sent[id][i].k = "inprog"}

Removed(id) == gh[id].removals > 0

\* C1: an entry is removed from the in-flight map at most once, at most one
\* terminal response (final Ok or Err) is ever sent on its reply channel,
\* and every removal whose cause is not client cancellation comes with
\* exactly one terminal response
C1_SingleTerminal ==
    \A id \in DOMAIN gh :
       /\ gh[id].removals <= 1
       /\ gh[id].finals <= 1
       /\ Cardinality(Terminals(id)) <= 1
       /\ (Removed(id) /\ gh[id].reason # Cancelled) => gh[id].finals = 1
       /\ (Removed(id) /\ gh[id].reason = Cancelled) => gh[id].finals = 0

\* an entry removed by a decoder error on its second token, with its one
\* terminal response, an Err
C1_Witness ==
    \E id \in DOMAIN gh :
       /\ Removed(id)
       /\ gh[id].reason = Error
       /\ gh[id].finals = 1
       /\ ent[id].has_output
       /\ ent[id].generated_tokens = 2
       /\ Cardinality(Terminals(id)) = 1
       /\ sent[id][Len(sent[id])].k = "err"

\* C2: whenever the batching task awaits Queue::next_batch, the in-flight
\* map is empty
C2_IdleMapEmpty == pc = "wait" => entries = {}

\* the task is back in queue-wait after a batch ended and the map is empty
C2_Witness ==
    /\ pc = "wait"
    /\ entries = {}
    /\ \E id \in DOMAIN gh : Removed(id) /\ gh[id].reason = MaxTokens

\* the order of the events of one reply channel: the first response of
\* infer_stream, then the input-token info if any, then in-progress events,
\* then a terminal event, which is the last
StreamOrder(s) ==
    \A i \in 1..Len(s) :
       /\ (s[i].k = "init") <=> (i = 1)
       /\ s[i].k = "input" => i = 2
       /\ IsTerminal(s[i]) => i = Len(s)

\* C3: the events placed on a streaming entry's reply channel are, in this
\* order, the input information (the first response carrying the input
\* token count, then the input-token info when the backend gives it), zero
\* or more in-progress events and one terminal event; nothing follows the
\* terminal event, and an entry removed while its receiver exists has its
\* terminal event
C3_StreamOrder ==
    \A id \in DOMAIN ent :
       ent[id].stream =>
          /\ StreamOrder(sent[id])
          /\ (Removed(id) /\ rx_open[id]) => Cardinality(Terminals(id)) = 1

\* a stream that got the input-token info, an in-progress event and its
\* final event
C3_Witness ==
    \E id \in DOMAIN ent :
       /\ ent[id].stream
       /\ Len(sent[id]) >= 4
       /\ sent[id][2].k = "input"
       /\ sent[id][3].k = "inprog"
       /\ sent[id][Len(sent[id])].k = "final"

\* the in-progress events among the first i events
InProgressUpTo(s, i) == Cardinality({j \in 1..i : s[j].k = "inprog"})

\* C4: on a streaming entry's reply channel the gen_token_count of
\* successive Ok events never decreases, the k-th in-progress event carries
\* k, and the final event carries the number of in-progress events before
\* it, or that number plus one
C4_TokenCount ==
    \A id \in DOMAIN ent :
       ent[id].stream =>
          \A i \in 1..Len(sent[id]) :
             LET ev == sent[id][i] IN
             /\ (ev.k # "err" /\ i > 1 /\ sent[id][i - 1].k # "err")
                   => sent[id][i - 1].n <= ev.n
             /\ ev.k = "inprog" => ev.n = InProgressUpTo(sent[id], i)
             /\ ev.k = "final" =>
                   ev.n \in {InProgressUpTo(sent[id], i), InProgressUpTo(sent[id], i) + 1}

\* a stream whose final event follows two in-progress events and carries 3
C4_Witness ==
    \E id \in DOMAIN ent :
       /\ ent[id].stream
       /\ Cardinality(InProgress(id)) = 2
       /\ sent[id][Len(sent[id])].k = "final"
       /\ sent[id][Len(sent[id])].n = 3

\* the FIFO the queue serves: what it buffered, then the channel's messages
Staged == buffer \o Flatten(chan)

\* the entries a step admits are a prefix of the FIFO
PrefixAdmitted ==
    (entries' \ entries) # {} =>
        \E k \in 1..Len(Staged) : (entries' \ entries) = Range(SubSeq(Staged, 1, k))

\* C5: of two entries enqueued one before the other (ids follow the order
\* of enqueueing) and both admitted, the earlier one is admitted in the same
\* batch or in an earlier batch; each batch taken is a prefix of the FIFO
C5_FifoAdmission ==
    /\ [](\A a, b \in DOMAIN gh :
             (a < b /\ gh[a].batch_no > 0 /\ gh[b].batch_no > 0)
                => gh[a].batch_no <= gh[b].batch_no)
    /\ [][PrefixAdmitted]_vars

\* entries of three calls admitted in two batches, the later call's entry in
\* the later batch, while a fourth entry waits
C5_Witness ==
    \E a, b \in DOMAIN gh :
       /\ a < b
       /\ gh[a].batch_no = 1
       /\ gh[b].batch_no = 2
       /\ \E c \in DOMAIN gh : b < c /\ gh[c].batch_no = 0

\* an enqueue call of the step: the ids of its entries
CallIds == [i \in 1..qh'.last_n |-> Len(ent) + i]

\* the call of the step was accepted: all its entries are one new message
Accepted ==
    /\ qh'.refused = qh.refused
    /\ chan' = Append(chan, CallIds)
    /\ Len(ent') = Len(ent) + qh'.last_n

\* the call of the step was refused with RequestQueueFull: nothing changed
Refused ==
    /\ qh'.refused = qh.refused + 1
    /\ chan' = chan
    /\ buffer' = buffer
    /\ entries' = entries
    /\ ent' = ent

\* C6 (amended): an enqueue call never blocks and is all-or-nothing; it is
\* refused with RequestQueueFull exactly when the channel already holds
\* queue_size calls not yet received, however many entries each call has
C6_AllOrNothing ==
    [][qh'.issued = qh.issued + 1 =>
          IF Len(chan) < cfg.queue_size THEN Accepted ELSE Refused]_vars

\* C6 as claimed: an enqueue call is all-or-nothing and is refused exactly
\* when its entries added to the queued entries would exceed the capacity
C6_AsClaimed ==
    [][qh'.issued = qh.issued + 1 =>
          IF Len(Staged) + qh'.last_n > cfg.queue_size THEN Refused ELSE Accepted]_vars

\* a call was refused while the channel held queue_size calls, one of them
\* accepted with two entries
C6_Witness ==
    /\ qh.refused = 1
    /\ Len(chan) = cfg.queue_size
    /\ Len(Staged) > cfg.queue_size

\* the calls the queue has received from the channel
Received == qh.issued - qh.refused - Len(chan)

\* every entry has its final Ok response, with the reason of its limit
AllCompleted ==
    \A id \in DOMAIN ent :
       /\ gh[id].finals = 1
       /\ gh[id].reason = MaxTokens
       /\ id \notin entries

\* the batching task awaits the queue and nothing is queued
Quiescent == pc = "wait" /\ chan = <<>> /\ buffer = <<>>

TokenStep(id) == ent'[id].generated_tokens > ent[id].generated_tokens

\* C8 (amended): an entry emits at most one in-progress event after its
\* deadline, and the first token processed after the deadline removes it,
\* with reason TimeLimit also below min_new_tokens, or with an error when
\* the decoder fails on that token or on the flush
C8_Deadline ==
    /\ [](\A id \in DOMAIN gh : gh[id].late <= 1)
    /\ [][\A id \in DOMAIN ent :
             (ent[id].has_deadline /\ expired[id] /\ TokenStep(id)) =>
                /\ id \notin entries'
                /\ \/ gh'[id].reason = TimeLimit
                   \/ gh'[id].reason = Error /\ ent[id].stop_seqs # {}]_vars

\* C8 as claimed: the first token processed after the deadline terminates
\* the entry with reason TimeLimit
C8_AsClaimed ==
    [][\A id \in DOMAIN ent :
          (ent[id].has_deadline /\ expired[id] /\ TokenStep(id)) =>
             (id \notin entries' /\ gh'[id].reason = TimeLimit)]_vars

\* an entry removed with TimeLimit by a token, below min_new_tokens
C8_Witness ==
    \E id \in DOMAIN ent :
       /\ Removed(id)
       /\ gh[id].reason = TimeLimit
       /\ ent[id].generated_tokens > 0
       /\ ent[id].generated_tokens < ent[id].min_new_tokens

\* C9: when an entry's terminal reason is StopSequence, its accumulated
\* decoded output contains one of its stop sequences
C9_StopSequence ==
    \A id \in DOMAIN ent :
       (Removed(id) /\ gh[id].reason = StopSequence) =>
          \E ss \in ent[id].stop_seqs : Contains(ent[id].output.out, ss)

\* an entry stopped by a stop sequence that a partial token completed
C9_Witness ==
    \E id \in DOMAIN ent :
       /\ Removed(id)
       /\ gh[id].reason = StopSequence
       /\ ent[id].generated_tokens = 2
       /\ ent[id].output.out = <<1, 2>>

\* the tokens processed for id since its client dropped the receiver
SinceDrop(id) == ent[id].generated_tokens - gh[id].drop_at

\* C10: after its client drops the receiver, an entry is removed with
\* reason Cancelled, or earlier for another reason, after at most 1 further
\* token when streaming and at most 16 further tokens when unary
C10_CancelLatency ==
    \A id \in DOMAIN ent :
       gh[id].drop_at >= 0 =>
          /\ id \in entries =>
                SinceDrop(id) < (IF ent[id].stream THEN 1 ELSE CancelPollEvery)
          /\ Removed(id) =>
                SinceDrop(id) <= (IF ent[id].stream THEN 1 ELSE CancelPollEvery)

\* a unary entry cancelled 16 tokens after its client left
C10_Witness ==
    \E id \in DOMAIN ent :
       /\ ~ent[id].stream
       /\ Removed(id)
       /\ gh[id].reason = Cancelled
       /\ SinceDrop(id) = CancelPollEvery

\* the batching task takes a step: a backend call or the queue-wait resolves
TaskMoved == pc' # pc \/ waiting_tokens' # waiting_tokens

\* the growth prefill being awaited returns an error
GrowthFails == pc = "grow" /\ TaskMoved /\ qh'.last = "err"

\* the ids a result of a backend call carries a token or an error for
ResultIds(r) == {r.outputs[i].id : i \in 1..Len(r.outputs)} \cup Range(r.errors)

\* every in-flight entry is stepped by the next_token call being awaited,
\* unless the call fails as a whole
AllStepped ==
    /\ pc = "step"
    /\ \A res \in next_token_results(call) :
          res[1].kind # "err" => entries \subseteq ResultIds(res[1])

\* C11: when the prefill of a growth step returns an error, exactly the
\* entries of the new batch (ids >= start_id) are removed and sent the error;
\* every entry in flight before the growth stays in the in-flight map with
\* its state unchanged and is stepped by the next_token call that follows
C11_GrowthError ==
    [][GrowthFails =>
          /\ entries' = {id \in entries : id < call.start_id}
          /\ \A id \in entries \ entries' :
                /\ gh'[id].finals = gh[id].finals + 1
                /\ gh'[id].reason = Error
                /\ sent'[id] = IF rx_open[id] THEN Append(sent[id], EvErr(0)) ELSE sent[id]
          /\ \A id \in entries' : ent'[id] = ent[id] /\ sent'[id] = sent[id]
          /\ AllStepped']_vars

\* a growth prefill has just failed: the new entry is gone with the error
\* and an older entry is still in flight
C11_Witness ==
    /\ pc = "step"
    /\ qh.last = "err"
    /\ entries # {}
    /\ \E id \in DOMAIN gh :
          /\ gh[id].batch_no = qh.nbatches
          /\ Removed(id)
          /\ gh[id].reason = Error
          /\ \A old \in entries : old < id

\* the initial prefill or the next_token call being awaited returns an error
CallFails == pc \in {"prefill", "step"} /\ TaskMoved /\ qh'.last = "err"

\* C12: when the initial prefill or a next_token call returns an error,
\* every entry in the in-flight map is removed and sent that error as its
\* terminal response, the map is empty afterwards, and the task goes back to
\* the queue-wait holding no batch and with no backend call under way
C12_BatchError ==
    [][CallFails =>
          /\ entries' = {}
          /\ \A id \in entries :
                /\ gh'[id].removals = gh[id].removals + 1
                /\ gh'[id].finals = gh[id].finals + 1
                /\ gh'[id].reason = Error
                /\ sent'[id] = IF rx_open[id] THEN Append(sent[id], EvErr(0)) ELSE sent[id]
          /\ pc' = "wait"
          /\ call' = NoCall
          /\ batches' = <<>>]_vars

\* a next_token call on a batch of two entries has just failed: both have
\* the error as their terminal response and the task waits on the queue
C12_Witness ==
    /\ pc = "wait"
    /\ qh.last = "err"
    /\ entries = {}
    /\ Cardinality({id \in DOMAIN gh :
                      /\ Removed(id)
                      /\ gh[id].reason = Error
                      /\ gh[id].batch_no = qh.nbatches
                      /\ ent[id].generated_tokens = 1
                      /\ sent[id][Len(sent[id])] = EvErr(0)}) = 2

\* the entries the backend goes on stepping for the batches bs, once it has
\* pruned what their statuses report as completed
SteppedBy(bs) ==
    UNION {prune_all(srv, bs)[b] : b \in batch_ids(bs) \cap DOMAIN prune_all(srv, bs)}

\* the entries that were in flight before the backend call being awaited
Running == IF pc = "grow" THEN {id \in entries : id < call.start_id} ELSE entries

\* the running entries are all held by the batches the loop goes on with
KeptRunning ==
    /\ pc \in {"step", "grow"}
    /\ Running \subseteq SteppedBy(IF pc = "grow" THEN batches ELSE call.batches)

\* the entries removed with an error by the step being taken
Failing == {id \in entries : id \notin entries' /\ gh'[id].reason = Error}

\* a backend call returns tokens and, for some entry, a generate error
GenerateErrors == TaskMoved /\ qh'.last = "some" /\ pc' # "panic" /\ Failing # {}

\* C13: when a backend step returns a generate error for an entry while
\* others of the same call are running, only that entry is terminated, with
\* the error; every other entry that met no stop criterion stays in the
\* in-flight map and goes on being stepped
C13_GenerateError ==
    [][GenerateErrors =>
          /\ \A id \in Failing :
                /\ gh'[id].finals = gh[id].finals + 1
                /\ rx_open[id] =>
                      sent'[id][Len(sent'[id])] = EvErr(ent[id].generated_tokens)
          /\ \A id \in entries \ Failing :
                id \in entries' \/ gh'[id].reason \in {EosToken, MaxTokens, TokenLimit}
          /\ entries' # {} => KeptRunning']_vars

\* a step has just failed one entry of a batch with a generate error while
\* the other entry of the batch is still in flight
C13_Witness ==
    /\ pc = "step"
    /\ qh.last = "some"
    /\ \E a \in DOMAIN gh, b \in entries :
          /\ gh[a].batch_no = gh[b].batch_no
          /\ Removed(a)
          /\ gh[a].reason = Error
          /\ ent[a].generated_tokens = ent[b].generated_tokens - 1

\* the rules of the stopping criteria, as conditions on one application
DeadlineElapsed == probe.e.has_deadline /\ probe.elapsed

BelowMin == probe.e.generated_tokens < probe.e.min_new_tokens

IsEos == probe.last_token_id = EosTokenId

AtMax == probe.e.generated_tokens >= probe.e.max_new_tokens

StopMatch == matches_stop_sequence(probe.e, probe.has_text, probe.text)

Checked == probe.fn = "check_stopping_criteria" /\ probe.result # "unset"

\* C14: check_stopping_criteria returns the reason of the first rule that
\* matches, in the order: deadline elapsed, TimeLimit; generated_tokens below
\* min_new_tokens, NotFinished; last token eos, EosToken; generated_tokens at
\* least max_new_tokens, TokenLimit or MaxTokens by max_is_token_limit; stop
\* sequence matched, StopSequence; otherwise NotFinished
C14_StopOrder ==
    Checked =>
       /\ DeadlineElapsed => probe.result = TimeLimit
       /\ (~DeadlineElapsed /\ BelowMin) => probe.result = NotFinished
       /\ (~DeadlineElapsed /\ ~BelowMin /\ IsEos) => probe.result = EosToken
       /\ (~DeadlineElapsed /\ ~BelowMin /\ ~IsEos /\ AtMax /\ probe.e.max_is_token_limit)
             => probe.result = TokenLimit
       /\ (~DeadlineElapsed /\ ~BelowMin /\ ~IsEos /\ AtMax /\ ~probe.e.max_is_token_limit)
             => probe.result = MaxTokens
       /\ (~DeadlineElapsed /\ ~BelowMin /\ ~IsEos /\ ~AtMax /\ StopMatch)
             => probe.result = StopSequence
       /\ (~DeadlineElapsed /\ ~BelowMin /\ ~IsEos /\ ~AtMax /\ ~StopMatch)
             => probe.result = NotFinished

\* the eos token on an entry that is also at max_new_tokens and whose output
\* ends with a stop sequence: EosToken is returned
C14_Witness ==
    /\ Checked
    /\ ~DeadlineElapsed /\ ~BelowMin
    /\ IsEos /\ AtMax /\ StopMatch
    /\ probe.result = EosToken

\* the entries the claim is about: no deadline and no stop sequences
Plain(id) == ~ent[id].has_deadline /\ ent[id].stop_seqs = {}

\* ended by the token budget: not by eos, a failure or the client leaving
EndedByBudget(id) == Removed(id) /\ gh[id].reason \notin {EosToken, Error, Cancelled}

\* the reason of an entry that used up its budget
BudgetReason(id) == IF ent[id].max_is_token_limit THEN TokenLimit ELSE MaxTokens

\* the entry is in flight below `budget` tokens and, when the budget ends
\* it, it has exactly `budget` tokens, reported with the budget's reason
EndsAt(id, budget) ==
    /\ id \in entries => ent[id].generated_tokens < budget
    /\ EndedByBudget(id) =>
          /\ ent[id].generated_tokens = budget
          /\ gh[id].reason = BudgetReason(id)
          /\ rx_open[id] =>
                /\ sent[id][Len(sent[id])].k = "final"
                /\ sent[id][Len(sent[id])].n = budget
                /\ sent[id][Len(sent[id])].r = BudgetReason(id)

GrowthAdmits == pc = "grow" /\ TaskMoved /\ qh'.last = "some"

\* how many tokens or errors the result r carries for id
Carried(r, id) ==
    Cardinality({i \in 1..Len(r.outputs) : r.outputs[i].id = id})
    + Cardinality({i \in 1..Len(r.errors) : r.errors[i] = id})

\* the next_token call being awaited steps every in-flight entry exactly
\* once, unless it fails as a whole
SteppedOnce ==
    /\ pc = "step"
    /\ \A res \in next_token_results(call) :
          res[1].kind # "err" => \A id \in entries : Carried(res[1], id) = 1

\* C16: in a loop iteration that admits a new batch by growth, every entry
\* of the new batch that is in flight after the growth prefill has
\* generated_tokens 1, every entry in flight before the growth is untouched
\* by the prefill, and the next_token call of the same iteration steps each
\* in-flight entry exactly once
C16_GrowthStep ==
    [][GrowthAdmits =>
          /\ \A id \in entries' : id >= call.start_id => ent'[id].generated_tokens = 1
          /\ \A id \in entries : id < call.start_id => id \in entries' /\ ent'[id] = ent[id]
          /\ SteppedOnce']_vars

\* a growth prefill has just admitted an entry beside one that has run
\* through the warm-up: next_token is about to step both
C16_Witness ==
    /\ pc = "step"
    /\ qh.last = "some"
    /\ waiting_tokens = 1
    /\ \E old, new \in entries :
          /\ gh[old].batch_no < gh[new].batch_no
          /\ gh[new].batch_no = qh.nbatches
          /\ ent[new].generated_tokens = 1
          /\ ent[old].generated_tokens > WarmupTokens

Decided == probe.fn = "should_try_to_grow_batch" /\ probe.applied

\* try_next_batch was called in the iteration: it received what the channel held
Tried == probe.queued /\ chan = <<>>

\* C17: the growth decision is true exactly when waiting_tokens > 5, fewer
\* entries than batch_size_limit are in flight and at least one of these
\* holds: waiting_tokens >= max_waiting_tokens, the last step completed some
\* entry or gave no completed list, the head of the queue has waited too
\* long; and try_next_batch is called only when the decision is true
C17_GrowthDecision ==
    Decided =>
       /\ probe.result <=>
             /\ probe.wt > WarmupTokens
             /\ probe.n < cfg.size_limit
             /\ \/ probe.wt >= cfg.max_waiting_tokens
                \/ ~probe.status.some
                \/ probe.status.completed_ids # {}
                \/ probe.tl
       /\ Tried => probe.result = TRUE
       /\ pc = "grow" => probe.result = TRUE

\* past the warm-up and below max_waiting_tokens, with no entry completed,
\* the decision is true because the head of the queue has waited too long,
\* and the queued entry is pulled
C17_Witness ==
    /\ Decided
    /\ probe.result = TRUE
    /\ probe.wt < cfg.max_waiting_tokens
    /\ probe.status.some /\ probe.status.completed_ids = {}
    /\ probe.tl
    /\ Tried
    /\ pc = "grow"

\* the responses a stream has received
Observed(id) == SubSeq(sent[id], 1, rs[id].pos)

\* the positions of the Ok responses among them
ObservedOk(id) == {i \in 1..rs[id].pos : sent[id][i].k # "err"}

\* the token count of the last Ok response received, 0 before the first
LastCount(id) ==
    IF ObservedOk(id) = {} THEN 0
    ELSE sent[id][CHOOSE i \in ObservedOk(id) : \A j \in ObservedOk(id) : j <= i].n

\* the text of the responses s, for a request with stop sequences
RECURSIVE TextOf(_)
TextOf(s) ==
    IF s = <<>> THEN <<>>
    ELSE (IF Head(s).k = "err" THEN <<>> ELSE Head(s).text) \o TextOf(Tail(s))

\* the bytes of the tokens of the responses s, for a request without
RECURSIVE BytesOf(_)
BytesOf(s) ==
    IF s = <<>> THEN <<>>
    ELSE (IF Head(s).tok = NoToken THEN <<>> ELSE TokBytes(Head(s).tok)) \o BytesOf(Tail(s))

\* the terminal Ok responses a stream has received
ObservedFinal(id) == {i \in ObservedOk(id) : sent[id][i].r # NotFinished}

\* C18: when a ResponseStream is dropped the sink is called exactly once,
\* with the token count of the last response observed, the text accumulated
\* from the responses observed, and the stop reason: the terminal reason
\* when one was observed, otherwise Error when an error is pending,
\* otherwise Cancelled
C18_DropSink ==
    \A id \in DOMAIN rs :
       /\ rs[id].sunk = (IF ent[id].stream /\ ~rs[id].open THEN 1 ELSE 0)
       /\ rs[id].sunk = 1 =>
             /\ rs[id].sink.count = LastCount(id)
             /\ rs[id].sink.text = IF rs[id].string THEN TextOf(Observed(id))
                                   ELSE BytesOf(Observed(id))
             /\ (\E i \in 1..rs[id].pos : sent[id][i].k = "err") => rs[id].sink.err
             /\ rs[id].sink.reason =
                   IF ObservedFinal(id) # {}
                   THEN sent[id][CHOOSE i \in ObservedFinal(id) : TRUE].r
                   ELSE IF rs[id].sink.err THEN Error ELSE Cancelled

\* a stream dropped after two tokens were observed and before the terminal
\* response: the sink has the count 2, the text and Cancelled
C18_Witness ==
    \E id \in DOMAIN rs :
       /\ rs[id].sunk = 1
       /\ rs[id].sink.count = 2
       /\ rs[id].sink.text # <<>>
       /\ rs[id].sink.reason = Cancelled

\* the task pulls from the queue inside its inner loop
PullsInLoop == pc \in {"prefill", "step"} /\ (qh'.nbatches # qh.nbatches \/ chan' # chan)

ReportedIds == batches[1].status.some /\ batches[1].status.completed_ids # {}

\* the current batch reported that all its entries completed: no status
ReportedAll == ~batches[1].status.some

\* C20 as stated: in a growth step the prune list passed to prefill is the
\* current batch when it reported at least one completed id, and is empty
\* otherwise
C20_AsClaimed ==
    pc = "grow" => call.to_prune = IF ReportedIds THEN batches ELSE <<>>

\* C20: in a growth step the prune list passed to prefill is the current
\* batch when it reported at least one completed id or reported, by an
\* absent status, that all its entries completed; it is empty when the
\* batch reported an empty list of completed ids
C20_PruneList ==
    pc = "grow" => call.to_prune = IF ReportedIds \/ ReportedAll THEN batches ELSE <<>>

\* a growth prefill is under way whose prune list is the current batch,
\* which reported one completed id while another of its entries runs on
C20_Witness ==
    /\ pc = "grow"
    /\ ReportedIds
    /\ call.to_prune = batches
    /\ \E id \in entries : id < call.start_id /\ id \notin batches[1].status.completed_ids

\* a backend call returns a result with tokens or errors and is processed
\* without a panic
Processed == TaskMoved /\ qh'.last = "some" /\ pc' # "panic"

\* the entries of the backend call being awaited: those of the batch given
\* to prefill, or those the backend steps for the batches given to next_token
Called == IF pc = "step" THEN SteppedBy(call.batches) ELSE Range(call.ids)

\* the status of the batch wrap_future has just handed back
Returned == batches[Len(batches)].status

\* C21: for every backend response, process_next_tokens returns the "all"
\* sentinel (no list of completed ids) if and only if every entry of the
\* call terminated in this step, entries with a token and entries with a
\* generate error alike; otherwise it returns exactly the ids removed in
\* this step
C21_Sentinel ==
    [][Processed =>
          /\ ~Returned'.some <=> Called \subseteq (entries \ entries')
          /\ Returned'.some => Returned'.completed_ids = entries \ entries']_vars

\* the sentinel has just been returned for a batch of two entries of which
\* one failed with a generate error and the other is still in flight
C21_Witness ==
    /\ pc = "step"
    /\ qh.last = "some"
    /\ ~Returned.some
    /\ \E a \in DOMAIN gh, b \in entries :
          /\ gh[a].batch_no = gh[b].batch_no
          /\ Removed(a)
          /\ gh[a].reason = Error

\* the ids of the batches of bs whose status is absent: those the token
\* processor returned the "all" sentinel for
AbsentIn(bs) == {bs[i].batch_id : i \in {j \in 1..Len(bs) : ~bs[j].status.some}}

\* the batch wrap_future has just handed back
Handed == batches[Len(batches)]

\* C22 as stated: once the token processor returned the "all" sentinel for
\* a batch, no next_token call is made with that batch
C22_AsClaimed == pc = "step" => AbsentIn(call.batches) = {}

\* C22: a batch the token processor returned the "all" sentinel for is
\* passed to one more backend call, the next next_token call or the prune
\* list of the growth prefill, and to none after it; a next_token call that
\* returns None or an error sends the task back to the queue-wait with no
\* batch held
C22_Abandon ==
    [][TaskMoved =>
          /\ (Processed /\ ~Returned'.some) =>
                \/ pc' = "step" /\ Handed'.batch_id \in batch_ids(call'.batches)
                \/ pc' = "grow" /\ Handed'.batch_id \in batch_ids(call'.to_prune)
          /\ pc = "step" =>
                AbsentIn(call.batches) \cap
                    (batch_ids(call'.batches) \cup batch_ids(call'.to_prune)) = {}
          /\ pc = "grow" =>
                AbsentIn(call.to_prune) \cap batch_ids(call'.batches) = {}
          /\ (pc = "step" /\ qh'.last # "some") =>
                pc' = "wait" /\ call' = NoCall /\ batches' = <<>>]_vars

\* every entry of the batch has just terminated and the next_token call
\* under way is given that batch, its status absent, and nothing else
C22_Witness ==
    /\ pc = "step"
    /\ qh.last = "some"
    /\ entries = {}
    /\ Len(call.batches) = 1
    /\ AbsentIn(call.batches) = batch_ids(call.batches)

\* C23: every entry the token processor terminated is known to the backend
\* as completed before its batch is stepped again: the entries the backend
\* steps for a next_token call, once it has pruned what the batches of the
\* call and the growth prefills before it reported, are all in flight
C23_PruneKnown == pc = "step" => SteppedBy(call.batches) \subseteq entries

\* a growth prefill has just failed and the batch list no longer names an
\* entry that was terminated before it and that the backend still holds
C23_Witness ==
    /\ pc = "step"
    /\ qh.last = "err"
    /\ \E id \in SteppedBy(call.batches) : Removed(id) /\ gh[id].reason # Error

\* a backend call being awaited resolves
CallReturns == pc \in {"prefill", "grow", "step"} /\ TaskMoved

\* C24: after every backend call the health flag reflects the call's
\* outcome: false after an error, true after a result with tokens,
\* unchanged after None; no other step writes the flag
C24_Health ==
    [][/\ (CallReturns /\ qh'.last = "err") => ~generation_health'
       /\ (CallReturns /\ qh'.last = "some") => generation_health'
       /\ (CallReturns /\ qh'.last = "none") => generation_health' = generation_health
       /\ ~CallReturns => generation_health' = generation_health]_vars

\* the growth prefill failed and set the flag to false; the next_token call
\* after it returned tokens, one of them for an entry no longer in flight,
\* and the task panicked before it wrote the flag
C24_Witness ==
    /\ pc = "panic"
    /\ qh.last = "some"
    /\ ~generation_health
    /\ entries # {}

\* the results the backend call being awaited may return
Results == IF pc = "step" THEN next_token_results(call) ELSE prefill_results(call)

\* the lookup and the assertion of process_input_tokens hold for whatever
\* the call being awaited returns
InputsExpected ==
    pc \in {"prefill", "grow", "step"} =>
        \A res \in Results : \A id \in Range(res[1].inputs) :
            id \in entries /\ ent[id].generated_tokens = 0

\* a prefill returns a result, with the input tokens of its batch
InputsArrive == pc \in {"prefill", "grow"} /\ TaskMoved /\ qh'.last = "some"

\* C25: whenever input tokens of an entry are processed the entry is in the
\* in-flight map with generated_tokens = 0, for the first prefill, a growth
\* prefill and the next_token calls alike; a streaming entry is then sent
\* the input-tokens event, before any token, and a unary entry has the input
\* tokens stored on it
C25_InputTokens ==
    /\ []InputsExpected
    /\ [][InputsArrive =>
             /\ pc' # "panic"
             /\ \A id \in Range(call.ids) :
                   IF ent[id].stream
                   THEN rx_open[id] =>
                           /\ Len(sent'[id]) > Len(sent[id])
                           /\ sent'[id][Len(sent[id]) + 1] = EvInput
                   ELSE ent'[id].input_tokens /\ ~ent[id].input_tokens]_vars

\* a growth prefill has just brought the input tokens of a streaming entry
\* while an older unary entry, which has its own, runs on
C25_Witness ==
    /\ pc = "step"
    /\ qh.last = "some"
    /\ qh.since = 0
    /\ \E old \in entries, new \in DOMAIN ent :
          /\ old < new
          /\ gh[new].batch_no = gh[old].batch_no + 1
          /\ ~ent[old].stream /\ ent[old].input_tokens /\ ent[old].generated_tokens > 1
          /\ ent[new].stream /\ ent[new].generated_tokens = 1
          /\ EvInput \in Range(sent[new])

\* a stop sequence of the probed entry occurs in the last n + |ss| bytes of
\* its output
InWindow(n) ==
    \E ss \in probe.e.stop_seqs : Contains(Suffix(probe.e.output.out, Len(ss) + n), ss)

\* matches_stop_sequence has been applied to the probe
Matched == probe.fn = "matches_stop_sequence" /\ probe.applied

\* C26 as stated: the match is true exactly when a stop sequence occurs in
\* the suffix of the output of length |stop_seq| + bytes added in the step
C26_AsClaimed == Matched => (probe.result <=> probe.has_text /\ InWindow(probe.added))

\* C26: the match is true exactly when the step added text and a stop
\* sequence occurs in the suffix of the output of length |stop_seq| + bytes
\* added - 1, that is, when an occurrence of it holds a byte added in the
\* step; without text of the step (no decoder) it is false
C26_Window == Matched => (probe.result <=> probe.has_text /\ InWindow(probe.added - 1))

\* the output holds a stop sequence that ends just before the one byte the
\* step added, and the match is false
C26_Witness ==
    /\ Matched
    /\ probe.has_text
    /\ probe.added = 1
    /\ InWindow(probe.added)
    /\ ~probe.result

\* the batching task can take no further step on its own: it has panicked,
\* or it awaits the queue and no request is pending
TaskAtRest == pc = "panic" \/ (pc = "wait" /\ chan = <<>> /\ buffer = <<>>)

\* the entries that were admitted to the in-flight map with
\* min_new_tokens <= max_new_tokens
Admitted == {id \in DOMAIN ent : gh[id].batch_no > 0 /\ ent[id].min_new_tokens <= ent[id].max_new_tokens}

\* C27: with a backend that answers every call, every entry admitted to
\* the in-flight map with min_new_tokens <= max_new_tokens is in the end
\* removed from it and, its receiver open, sent its terminal response:
\* whenever the batching task is at rest, no admitted entry is in flight and
\* each one with an open receiver has its terminal response
C27_Terminates ==
    TaskAtRest =>
        \A id \in Admitted :
            /\ id \notin entries
            /\ rx_open[id] => Terminals(id) # {}

\* the task awaits the queue, no request is pending, and an entry that was
\* stepped at least once is in flight, unanswered, held by no batch of the
\* backend
C27_Witness ==
    /\ pc = "wait" /\ chan = <<>> /\ buffer = <<>>
    /\ \E id \in entries \cap Admitted :
          /\ ent[id].generated_tokens >= 1
          /\ Terminals(id) = {}
          /\ \A b \in DOMAIN srv : id \notin srv[b]

\* C28: every next_token call the batching loop makes is given a non-empty
\* list of batches, also after a growth step in which the current batch had
\* no status and the growth prefill handed back no batch
C28_NonEmptyCall == pc = "step" => call.batches # <<>>

\* every entry of the batch had completed, the growth prefill of the next
\* request failed, and next_token is called with no batch at all
C28_Witness ==
    /\ pc = "step"
    /\ call.batches = <<>>
    /\ qh.last = "err"
    /\ entries = {}
    /\ \E id \in DOMAIN gh : Removed(id) /\ gh[id].reason \in {EosToken, MaxTokens}

\* `e.request.parameters.max_new_tokens - e.generated_tokens` of
\* log_new_batch, as the integer it stands for before the unsigned wrap
RemainingTokens(id) == ent[id].max_new_tokens - ent[id].generated_tokens

\* C29: between two backend calls every in-flight entry with
\* min_new_tokens <= max_new_tokens has generated_tokens <= max_new_tokens,
\* so the unsigned subtraction of log_new_batch does not underflow for it
C29_NoUnderflow ==
    \A id \in entries :
        ent[id].min_new_tokens <= ent[id].max_new_tokens =>
            /\ ent[id].generated_tokens <= ent[id].max_new_tokens
            /\ RemainingTokens(id) >= 0

\* an entry with a minimum below its limit is in flight one token short of
\* the limit, past its minimum
C29_Witness ==
    \E id \in entries :
        /\ 0 < ent[id].min_new_tokens
        /\ ent[id].min_new_tokens <= ent[id].generated_tokens
        /\ ent[id].generated_tokens = ent[id].max_new_tokens - 1
        /\ pc = "step"

\* the decoded output of the entry holds one of its stop sequences
HoldsStop(id) == \E ss \in ent[id].stop_seqs : Contains(ent[id].output.out, ss)

\* the entry is in flight after a step that took it to its minimum or beyond
PastMin(id) ==
    /\ id \in entries
    /\ ent[id].generated_tokens >= 1
    /\ ent[id].generated_tokens >= ent[id].min_new_tokens

\* C30: the decoded output of an entry with stop sequences that is in
\* flight after a step, with generated_tokens >= min_new_tokens, holds none
\* of its stop sequences: one completed below the minimum ends the entry at
\* the first step that reaches the minimum
C30_NoStopInFlight ==
    \A id \in DOMAIN ent : (PastMin(id) /\ ent[id].stop_seqs # {}) => ~HoldsStop(id)

\* an entry is in flight at its minimum and its output begins with a stop
\* sequence, completed by its first token, two steps before the minimum
C30_Witness ==
    \E id \in DOMAIN ent :
        /\ PastMin(id)
        /\ ent[id].generated_tokens = ent[id].min_new_tokens
        /\ ent[id].stop_seqs = {<<1>>}
        /\ ent[id].output.out = <<1, 2, 2>>

====
